---- MODULE Spec2Model ----
(***************************************************************************)
(* PhantasmaAPI (src/phantasma.py) and StrictTypeHandler                   *)
(* (src/type_handlers.py): the paginated fetch operations of one           *)
(* PhantasmaAPI object, driven by an upstream explorer API whose responses *)
(* are chosen nondeterministically.                                        *)
(*                                                                         *)
(* One action is one upstream request together with all the processing the *)
(* code does until it issues the next request or returns.                  *)
(*                                                                         *)
(* Representation:                                                         *)
(*   - Optional[T] is a sequence: << >> is None, << v >> is the value v.   *)
(*   - a Decimal is an integer number of thousandths (Decimal("2") is      *)
(*     2000); JSON numbers arrive as strings and are parsed by DecimalOf.  *)
(*   - the page size 20000 of the code is scaled down to Limit.            *)
(*   - a datetime is its wall-clock reading (an integer) and its tzinfo    *)
(*     (None, or the UTC offset in minutes).                               *)
(***************************************************************************)
EXTENDS Integers, Sequences, FiniteSets, TLC

\* Cap on the number of records the upstream holds in one stream (the code's loop
\* has no bound of its own).
MaxRecords == 4
\* Cap on the number of points of one price history response.
MaxPoints == 2
\* Cap on the number of rows of a frame handed to a formatter directly.
MaxRows == 2

\* params['limit'], scaled down from 20000.
Limit == 2

VARIABLES
    pc,             \* position of the running operation
    op,             \* the operation called last
    args,           \* the arguments of the call
    token_symbol,   \* local token_symbol
    offset,         \* params['offset']
    acc,            \* all_holders / all_transfers / prices
    result_addresses, \* local result['addresses'] of fetch_holders, results['tokens']
                    \* of fetch_token_info, result['history_prices'] of fetch_prices
    result_send,    \* local result_send['events']
    result_receive, \* local result_receive['events']
    log,            \* requests issued by the running operation, in order, each with
                    \* the number of raw records the upstream returned for it
    result          \* what the call returned

vars == <<pc, op, args, token_symbol, offset, acc, result_addresses, result_send,
          result_receive, log, result>>

None == << >>
Some(v) == << v >>
IsNone(o) == o = << >>

SeqsUpTo(S, n) == UNION {[1..k -> S] : k \in 0..n}
Last(s) == s[Len(s)]

----------------------------------------------------------------------------
(* Conversions *)

\* Decimal(str) in thousandths: the literals the upstream can send; "x" is no
\* decimal literal.
DecimalTable ==
    ("0" :> 0) @@ ("1" :> 1000) @@ ("2" :> 2000) @@ ("3" :> 3000)
    @@ ("0.004" :> 4) @@ ("0.005" :> 5)
IsDecimalLiteral(s) == s \in DOMAIN DecimalTable
DecimalOf(s) == DecimalTable[s]

\* int(str) of an epoch date.
IntTable == ("100" :> 100) @@ ("200" :> 200) @@ ("300" :> 300)
IntOf(s) == IntTable[s]

\* str.strip()
StripTable == (" A" :> "A") @@ ("B " :> "B")
Strip(s) == IF s \in DOMAIN StripTable THEN StripTable[s] ELSE s

\* The values a timestamp cell can hold: a Python int, a datetime (pd.Timestamp
\* included) and a str.
IntValue(n) == [n |-> n, type |-> "int"]
DateTime(wall, tz) == [type |-> "datetime", wall |-> wall, tzinfo |-> tz]
StrValue(s) == [s |-> s, type |-> "str"]

\* pd.to_datetime(str): the strings it parses, with and without a UTC offset.
DatetimeTable ==
    ("1970-01-01 00:20:00" :> DateTime(1200, None))
    @@ ("1970-01-01T00:20:00+03:00" :> DateTime(1200, Some(180)))
pd_to_datetime_ok(s) == s \in DOMAIN DatetimeTable
pd_to_datetime(s) == DatetimeTable[s]

\* The UTC offset, in seconds, of the zone the process runs in.
LocalUtcOffset == 60 * 60

\* datetime.fromtimestamp(value): the naive local reading of an epoch second.
fromtimestamp(n) == DateTime(n + LocalUtcOffset, None)

\* Variant: the value is converted to UTC before the zone is dropped.
astimezone_utc_naive(dt) ==
    DateTime(IF IsNone(dt.tzinfo) THEN dt.wall ELSE dt.wall - 60 * dt.tzinfo[1], None)

\* value.replace(tzinfo=None): the zone is dropped, the fields stay.
replace_tzinfo_none(dt) == [dt EXCEPT !.tzinfo = None]

\* StrictTypeHandler.to_timestamp raises ValueError for what pd.to_datetime rejects.
to_timestamp_ok(value) == value.type = "str" => pd_to_datetime_ok(value.s)

\* StrictTypeHandler.to_timestamp
to_timestamp(value) ==
    CASE value.type = "datetime" -> replace_tzinfo_none(value)
      [] value.type = "int" -> fromtimestamp(value.n)
      [] value.type = "str" -> replace_tzinfo_none(pd_to_datetime(value.s))

\* Series.dt.tz_localize(None)
tz_localize_none(ts) == [ts EXCEPT !.tzinfo = None]

\* pd.DataFrame(records) of the records a fetch accumulated: the timestamp column
\* holds Python ints.
DataFrame(records) ==
    [i \in 1..Len(records) |-> [records[i] EXCEPT !.timestamp = IntValue(@)]]

\* StrictTypeHandler.to_decimal on a str.
to_decimal_ok(s) == IsDecimalLiteral(s)
to_decimal(s) == DecimalOf(s)

----------------------------------------------------------------------------
(* Upstream data *)

Symbols == {"SOUL", "KCAL"}
TokenAddresses == {"P2K"}

Event(a, d, h, v) ==
    [address |-> a, date |-> d, transaction_hash |-> h, token_event |-> [value |-> v]]

SendEvents ==
    { Event("A", "100", "h1", "1"),
      Event("B", "200", "h2", "2"),
      Event("A", "300", "h3", "x") }

\* The send events a fetch_early_transfers meets: values below, at and above the
\* dust threshold, and one that is no decimal literal.
EarlySendEvents ==
    { Event("A", "100", "h1", "1"),
      Event("B", "200", "h2", "0.005"),
      Event("B", "200", "h4", "0.004"),
      Event("A", "300", "h3", "x") }

ReceiveEvents ==
    { Event("B", "300", "r1", "1"),
      Event("C", "300", "r2", "3") }

Balance(s, a) == [token |-> [symbol |-> s], amount |-> a]

HolderEntries ==
    { [address |-> a, balances |-> b] :
        a \in {"A", "B "},
        b \in { << >>,
                << Balance("KCAL", "2"), Balance("SOUL", "1") >>,
                << Balance("SOUL", "1"), Balance("SOUL", "0") >> } }


----------------------------------------------------------------------------
(* Results *)

NoData == [kind |-> "none", rows |-> << >>]
Pending == [kind |-> "pending", rows |-> << >>]
Raised == [kind |-> "raise", rows |-> << >>]
Table(rows) == [kind |-> "table", rows |-> rows]

\* Variant: the exception leaves the operation.
OnExceptionPropagates == Raised

\* The except clause of every fetch operation: log and return None.
OnException == NoData

\* A request as _make_request receives it: endpoint and params.
Request(endpoint, kind, off, lim, contract, dg, dl, key) ==
    [offset |-> off, endpoint |-> endpoint, contract |-> contract, key |-> key,
     event_kind |-> kind, limit |-> lim, date_greater |-> dg, date_less |-> dl]

\* _make_request: any status code other than 200 raises.
StatusCodes == {200, 500}
make_request_raises(status_code) == status_code # 200

\* The upstream holds at most MaxRecords records in a stream and never returns
\* more than limit records: the longest page it can return at an offset.
PageLen(off) ==
    IF off >= MaxRecords THEN 0
    ELSE IF MaxRecords - off < Limit THEN MaxRecords - off ELSE Limit
HolderPagesAt(off) == SeqsUpTo(HolderEntries, PageLen(off))
SendPagesAt(off) == SeqsUpTo(SendEvents, PageLen(off))
EarlySendPagesAt(off) == SeqsUpTo(EarlySendEvents, PageLen(off))
ReceivePagesAt(off) == SeqsUpTo(ReceiveEvents, PageLen(off))

\* A request and what came back: None for a failed request, otherwise the number
\* of raw records of the response.
Exchange(request, status_code, records) ==
    [request |-> request,
     got |-> IF make_request_raises(status_code) THEN None ELSE Some(Len(records))]

----------------------------------------------------------------------------
(* StrictTypeHandler formatters: [exc, rows]; exc means the formatter raised *)

Done(rows) == [rows |-> rows, exc |-> FALSE]
Exc(rows) == [rows |-> rows, exc |-> TRUE]

\* format_holders_df: df['owner_address'] of an empty frame raises KeyError.
format_holders_df(df) ==
    IF df = << >> \/ \E i \in 1..Len(df) : ~to_decimal_ok(df[i].balance)
    THEN Exc(<< >>)
    ELSE Done([i \in 1..Len(df) |->
                 [balance |-> to_decimal(df[i].balance),
                  owner_address |-> Strip(df[i].owner_address)]])

\* Variant: the formatter drops rows equal to an earlier row.
RECURSIVE Dedup(_)
Dedup(rows) ==
    IF rows = << >> THEN << >>
    ELSE LET front == Dedup(SubSeq(rows, 1, Len(rows) - 1)) IN
         IF \E i \in 1..Len(front) : front[i] = Last(rows) THEN front
         ELSE Append(front, Last(rows))

format_transfers_df_dedup(df) ==
    IF df = << >> \/ \E i \in 1..Len(df) :
                      ~to_timestamp_ok(df[i].timestamp) \/ ~to_decimal_ok(df[i].quantity)
    THEN Exc(<< >>)
    ELSE Done(Dedup([i \in 1..Len(df) |->
                 [timestamp |-> tz_localize_none(to_timestamp(df[i].timestamp)),
                  transaction_hash |-> Strip(df[i].transaction_hash),
                  quantity |-> to_decimal(df[i].quantity),
                  from_address |-> Strip(df[i].from_address),
                  to_address |-> Strip(df[i].to_address)]]))

\* Variant: an empty frame is formatted to an empty table.
format_transfers_df_empty(df) ==
    IF \E i \in 1..Len(df) :
          ~to_timestamp_ok(df[i].timestamp) \/ ~to_decimal_ok(df[i].quantity)
    THEN Exc(<< >>)
    ELSE Done([i \in 1..Len(df) |->
                 [timestamp |-> tz_localize_none(to_timestamp(df[i].timestamp)),
                  transaction_hash |-> Strip(df[i].transaction_hash),
                  quantity |-> to_decimal(df[i].quantity),
                  from_address |-> Strip(df[i].from_address),
                  to_address |-> Strip(df[i].to_address)]])

\* format_transfers_df: df['timestamp'] of an empty frame raises KeyError.
format_transfers_df(df) ==
    IF df = << >> \/ \E i \in 1..Len(df) :
                      ~to_timestamp_ok(df[i].timestamp) \/ ~to_decimal_ok(df[i].quantity)
    THEN Exc(<< >>)
    ELSE Done([i \in 1..Len(df) |->
                 [timestamp |-> tz_localize_none(to_timestamp(df[i].timestamp)),
                  transaction_hash |-> Strip(df[i].transaction_hash),
                  quantity |-> to_decimal(df[i].quantity),
                  from_address |-> Strip(df[i].from_address),
                  to_address |-> Strip(df[i].to_address)]])

\* format_historical_holders_df: df['timestamp'] of an empty frame raises KeyError.
format_historical_holders_df(df) ==
    IF df = << >> \/ \E i \in 1..Len(df) :
                      ~to_timestamp_ok(df[i].timestamp) \/ ~to_decimal_ok(df[i].balance)
    THEN Exc(<< >>)
    ELSE Done([i \in 1..Len(df) |->
                 [timestamp |-> to_timestamp(df[i].timestamp),
                  balance |-> to_decimal(df[i].balance),
                  owner_address |-> Strip(df[i].owner_address)]])

\* What a fetch returns once its loop has ended with accumulator df.
ReturnOf(formatted) ==
    IF formatted.exc THEN OnException ELSE Table(formatted.rows)

----------------------------------------------------------------------------
(* fetch_holders *)

\* next((b['amount'] for b in holder['balances'] if b['token']['symbol'] == token_symbol), '0')
RECURSIVE FirstBalance(_, _, _)
FirstBalance(balances, sym, i) ==
    IF i > Len(balances) THEN "0"
    ELSE IF balances[i].token.symbol = sym THEN balances[i].amount
    ELSE FirstBalance(balances, sym, i + 1)

\* Variant: a balance equal to min_balance is left out.
HolderAcceptedStrict(balance, min_balance) == DecimalOf(balance) > min_balance

\* if Decimal(balance) >= min_balance:
HolderAccepted(balance, min_balance) == DecimalOf(balance) >= min_balance

\* for holder in result['addresses']: ...
RECURSIVE HolderLoop(_, _, _, _, _)
HolderLoop(page, i, sym, min_balance, rows) ==
    IF i > Len(page) THEN Done(rows)
    ELSE LET balance == FirstBalance(page[i].balances, sym, 1) IN
         IF ~IsDecimalLiteral(balance) THEN Exc(rows)
         ELSE IF HolderAccepted(balance, min_balance)
         THEN HolderLoop(page, i + 1, sym, min_balance,
                         Append(rows, [balance |-> balance,
                                       owner_address |-> page[i].address]))
         ELSE HolderLoop(page, i + 1, sym, min_balance, rows)

----------------------------------------------------------------------------
(* fetch_transfers and fetch_early_transfers *)

\* Variant: "if addresses is not None".
TruthyNotNone(addresses) == ~IsNone(addresses)

\* if addresses:
Truthy(addresses) == ~IsNone(addresses) /\ addresses[1] # {}

\* Variant: a value equal to min_value is skipped too.
BelowMinValueInclusive(event_send, min_value) ==
    DecimalOf(event_send.token_event.value) <= min_value

\* if Decimal(event_send['token_event']['value']) < min_value: continue
BelowMinValue(event_send, min_value) == DecimalOf(event_send.token_event.value) < min_value

\* if addresses: ... continue
AddressRejected(event_send, event_receive, addresses, from_address_only) ==
    /\ Truthy(addresses)
    /\ IF from_address_only
       THEN event_send.address \notin addresses[1]
       ELSE ~(\E address \in {event_send.address, event_receive.address} :
                 address \in addresses[1])

\* all_transfers.append({...})
TransferRow(event_send, event_receive) ==
    [timestamp |-> IntOf(event_send.date),
     transaction_hash |-> event_send.transaction_hash,
     quantity |-> event_send.token_event.value,
     from_address |-> event_send.address,
     to_address |-> event_receive.address]

\* Variant: the receive event is always taken from the head of the page.
ReceiveAtFirst(receive, index) == receive[1]

\* event_receive = result_receive['events'][index]
ReceiveAt(receive, index) == receive[index]

\* for index, event_send in enumerate(result_send['events']): ...   (fetch_transfers)
RECURSIVE TransferLoop(_, _, _, _, _)
TransferLoop(send, receive, index, a, rows) ==
    IF index > Len(send) THEN Done(rows)
    ELSE IF index > Len(receive) THEN Exc(rows)                          \* IndexError
    ELSE IF ~IsDecimalLiteral(send[index].token_event.value) THEN Exc(rows)
    ELSE IF \/ BelowMinValue(send[index], a.min_value)
            \/ AddressRejected(send[index], ReceiveAt(receive, index),
                               a.addresses, a.from_address_only)
    THEN TransferLoop(send, receive, index + 1, a, rows)
    ELSE TransferLoop(send, receive, index + 1, a,
                      Append(rows, TransferRow(send[index], ReceiveAt(receive, index))))

\* token_symbol == "KCAL" and Decimal(value) < Decimal(0.005): the double 0.005 is
\* slightly above five thousandths, so five thousandths itself is below it.
IsDust(sym, value) == sym = "KCAL" /\ DecimalOf(value) <= 5

\* for index, event_send in enumerate(result_send['events']): ...   (fetch_early_transfers)
RECURSIVE EarlyLoop(_, _, _, _, _)
EarlyLoop(send, receive, index, sym, rows) ==
    IF index > Len(send) THEN Done(rows)
    ELSE IF index > Len(receive) THEN Exc(rows)                          \* IndexError
    ELSE IF sym = "KCAL" /\ ~IsDecimalLiteral(send[index].token_event.value) THEN Exc(rows)
    ELSE IF IsDust(sym, send[index].token_event.value)
    THEN EarlyLoop(send, receive, index + 1, sym, rows)
    ELSE EarlyLoop(send, receive, index + 1, sym,
                   Append(rows, TransferRow(send[index], ReceiveAt(receive, index))))

\* Variant: only the send page is tested.
EmptyBreakSendOnly(send, receive) == send = << >>

\* if not result_send['events'] or not result_receive['events']: break
EmptyBreak(send, receive) == send = << >> \/ receive = << >>

\* Variant: a full page ends the loop too.
ShortBreakInclusive(page) == Len(page) <= Limit

\* Variant: a page one record short of the limit does not end the loop.
ShortBreakOffByOne(page) == Len(page) < Limit - 1

\* if len(result_send['events']) < params['limit']: break
ShortBreak(page) == Len(page) < Limit

\* Variant: the offset is never moved on.
NextOffsetStuck(off) == off

\* Variant: the offset moves on by one record instead of one page.
NextOffsetByOne(off) == off + 1

\* params['offset'] += params['limit']
NextOffset(off) == off + Limit

\* Variant: the offset moves on between the two requests of a page.
EventsRequestDrift(kind) ==
    Request("events", kind, IF kind = "TokenReceive" THEN offset + Limit ELSE offset,
            Limit, token_symbol, args.start_date, args.end_date, "")

\* {'event_kind': kind, **params}
EventsRequest(kind) ==
    Request("events", kind, offset, Limit, token_symbol,
            args.start_date, args.end_date, "")

----------------------------------------------------------------------------
(* Arguments *)

Dates == {None, Some(10)}
MinBalances == {0, 1000, 2000}
MinValues == {0, 2000}
AddressSets == {None, Some({}), Some({"B"})}

Args(token_address, min_balance, addresses, start_date, end_date, from_address_only, min_value) ==
    [min_balance |-> min_balance, addresses |-> addresses, min_value |-> min_value,
     from_address_only |-> from_address_only, start_date |-> start_date,
     end_date |-> end_date, token_address |-> token_address]

NoArgs == Args("", 0, None, None, None, FALSE, 0)

Init ==
    /\ pc = "idle"
    /\ op = "none"
    /\ args = NoArgs
    /\ token_symbol = ""
    /\ offset = 0
    /\ acc = << >>
    /\ result_addresses = << >>
    /\ result_send = << >>
    /\ result_receive = << >>
    /\ log = << >>
    /\ result = Pending

\* Variant: the offset lives on the object and is kept from the call before.
EnterKeepsOffset(name, a) ==
    /\ pc \in {"idle", "done"}
    /\ pc' = "resolve"
    /\ op' = name
    /\ args' = a
    /\ token_symbol' = ""
    /\ offset' = offset
    /\ acc' = << >>
    /\ result_addresses' = << >>
    /\ result_send' = << >>
    /\ result_receive' = << >>
    /\ log' = << >>
    /\ result' = Pending

\* Entry of a fetch operation: fresh locals, nothing requested yet.
Enter(name, a) ==
    /\ pc \in {"idle", "done"}
    /\ pc' = "resolve"
    /\ op' = name
    /\ args' = a
    /\ token_symbol' = ""
    /\ offset' = 0
    /\ acc' = << >>
    /\ result_addresses' = << >>
    /\ result_send' = << >>
    /\ result_receive' = << >>
    /\ log' = << >>
    /\ result' = Pending

\* A variant that returns what was accumulated so far.
AbortPartial == pc' = "done" /\ result' = Table(acc)

\* The operation ends by an exception reaching its except clause.
Abort == pc' = "done" /\ result' = OnException

\* The operation ends by its return statement.
Return(formatted) == pc' = "done" /\ result' = ReturnOf(formatted)

fetch_token_info ==
    \E t \in TokenAddresses :
        Enter("fetch_token_info", Args(t, 0, None, None, None, FALSE, 0))

fetch_holders ==
    \E t \in TokenAddresses, m \in MinBalances :
        Enter("fetch_holders", Args(t, m, None, None, None, FALSE, 0))

fetch_transfers ==
    \E t \in TokenAddresses, a \in AddressSets, sd \in Dates,
       f \in BOOLEAN, m \in MinValues :
        Enter("fetch_transfers", Args(t, 0, a, sd, None, f, m))

fetch_early_transfers ==
    \E t \in TokenAddresses, sd \in Dates :
        Enter("fetch_early_transfers", Args(t, 0, None, sd, None, FALSE, 0))

fetch_prices ==
    \E t \in TokenAddresses, sd \in Dates, ed \in Dates :
        Enter("fetch_prices", Args(t, 0, None, sd, ed, FALSE, 0))

\* Where each operation goes once the symbol is resolved.
AfterResolve ==
    [fetch_token_info |-> "tokens", fetch_holders |-> "holders",
     fetch_transfers |-> "send", fetch_early_transfers |-> "early_send",
     fetch_prices |-> "prices"]

\* Variant: an address the upstream does not know falls back to the SOUL symbol.
get_symbol_or_default ==
    /\ pc = "resolve"
    /\ \E status_code \in StatusCodes, addresses \in SeqsUpTo(Symbols, 1) :
        /\ log' = Append(log, Exchange(Request("addresses", "", 0, 0, "", None, None,
                                               args.token_address),
                                       status_code, addresses))
        /\ IF make_request_raises(status_code)
           THEN Abort /\ UNCHANGED token_symbol
           ELSE /\ token_symbol' = IF addresses = << >> THEN "SOUL" ELSE addresses[1]
                /\ pc' = AfterResolve[op]
                /\ UNCHANGED result
    /\ UNCHANGED <<op, args, offset, acc, result_addresses, result_send, result_receive>>

\* get_symbol_by_token_address, the first statement of every fetch operation.
get_symbol_by_token_address ==
    /\ pc = "resolve"
    /\ \E status_code \in StatusCodes, addresses \in SeqsUpTo(Symbols, 1) :
        /\ log' = Append(log, Exchange(Request("addresses", "", 0, 0, "", None, None,
                                               args.token_address),
                                       status_code, addresses))
        /\ IF make_request_raises(status_code) \/ addresses = << >>
           THEN Abort /\ UNCHANGED token_symbol
           ELSE /\ token_symbol' = addresses[1]
                /\ pc' = AfterResolve[op]
                /\ UNCHANGED result
    /\ UNCHANGED <<op, args, offset, acc, result_addresses, result_send, result_receive>>

\* One iteration of the while loop of fetch_holders, and the return when it breaks.
HoldersPage ==
    /\ pc = "holders"
    /\ \E status_code \in StatusCodes, page \in HolderPagesAt(offset) :
        /\ log' = Append(log, Exchange(Request("addresses", "", offset, Limit,
                                               token_symbol, None, None, ""),
                                       status_code, page))
        /\ IF make_request_raises(status_code)
           THEN Abort /\ UNCHANGED <<offset, acc, result_addresses>>
           ELSE /\ result_addresses' = page
                /\ IF page = << >>
                   THEN Return(format_holders_df(acc)) /\ UNCHANGED <<offset, acc>>
                   ELSE LET r == HolderLoop(page, 1, token_symbol, args.min_balance, acc) IN
                        /\ acc' = r.rows
                        /\ IF r.exc THEN Abort /\ UNCHANGED offset
                           ELSE IF ShortBreak(page)
                           THEN Return(format_holders_df(r.rows)) /\ UNCHANGED offset
                           ELSE /\ offset' = NextOffset(offset)
                                /\ UNCHANGED <<pc, result>>
    /\ UNCHANGED <<op, args, token_symbol, result_send, result_receive>>

\* The TokenSend request of a page.
SendRequest(at, next, pages) ==
    /\ pc = at
    /\ \E status_code \in StatusCodes, page \in pages :
        /\ log' = Append(log, Exchange(EventsRequest("TokenSend"), status_code, page))
        /\ IF make_request_raises(status_code)
           THEN Abort /\ UNCHANGED result_send
           ELSE result_send' = page /\ pc' = next /\ UNCHANGED result
    /\ UNCHANGED <<op, args, token_symbol, offset, acc, result_addresses, result_receive>>

\* fetch_transfers: the TokenSend request of a page.
TransfersSend == SendRequest("send", "receive", SendPagesAt(offset))

\* fetch_transfers: the TokenReceive request of a page, the pairing of the page, and
\* the return when the loop breaks.
TransfersReceive ==
    /\ pc = "receive"
    /\ \E status_code \in StatusCodes, page \in ReceivePagesAt(offset) :
        /\ log' = Append(log, Exchange(EventsRequest("TokenReceive"), status_code, page))
        /\ IF make_request_raises(status_code)
           THEN Abort /\ UNCHANGED <<offset, acc, result_receive>>
           ELSE /\ result_receive' = page
                /\ IF EmptyBreak(result_send, page)
                   THEN Return(format_transfers_df(DataFrame(acc))) /\ UNCHANGED <<offset, acc>>
                   ELSE LET r == TransferLoop(result_send, page, 1, args, acc) IN
                        /\ acc' = r.rows
                        /\ IF r.exc THEN Abort /\ UNCHANGED offset
                           ELSE IF ShortBreak(result_send)
                           THEN Return(format_transfers_df(DataFrame(r.rows))) /\ UNCHANGED offset
                           ELSE /\ offset' = NextOffset(offset)
                                /\ pc' = "send"
                                /\ UNCHANGED result
    /\ UNCHANGED <<op, args, token_symbol, result_addresses, result_send>>

\* fetch_early_transfers: the TokenSend request of a page.
EarlySend == SendRequest("early_send", "early_receive", EarlySendPagesAt(offset))

\* fetch_early_transfers: the TokenReceive request of a page, the pairing of the page,
\* and the return when the loop breaks.
EarlyReceive ==
    /\ pc = "early_receive"
    /\ \E status_code \in StatusCodes, page \in ReceivePagesAt(offset) :
        /\ log' = Append(log, Exchange(EventsRequest("TokenReceive"), status_code, page))
        /\ IF make_request_raises(status_code)
           THEN Abort /\ UNCHANGED <<offset, acc, result_receive>>
           ELSE /\ result_receive' = page
                /\ IF EmptyBreak(result_send, page)
                   THEN Return(format_transfers_df(DataFrame(acc))) /\ UNCHANGED <<offset, acc>>
                   ELSE LET r == EarlyLoop(result_send, page, 1, token_symbol, acc) IN
                        /\ acc' = r.rows
                        /\ IF r.exc THEN Abort /\ UNCHANGED offset
                           ELSE IF ShortBreak(result_send)
                           THEN Return(format_transfers_df(DataFrame(r.rows))) /\ UNCHANGED offset
                           ELSE /\ offset' = NextOffset(offset)
                                /\ pc' = "early_send"
                                /\ UNCHANGED result
    /\ UNCHANGED <<op, args, token_symbol, result_addresses, result_send>>

----------------------------------------------------------------------------
(* fetch_token_info *)

UpperTable == ("SOUL" :> "SOUL") @@ ("KCAL" :> "KCAL")
LowerTable == ("SOUL" :> "soul") @@ ("KCAL" :> "kcal")

\* int(float(str(value))) of a JSON integer.
to_int(v) == v

TokenRecords(sym) ==
    { [symbol |-> sym, name |-> "B ", decimals |-> 8, current_supply |-> "3",
       create_event |-> ce] :
        ce \in {None, Some([creation_date |-> "100"])} }

\* Variant: the creation event is never read.
CreatedTsIgnoresEvent(tok) == 0

\* created_ts = 0; if "create_event" in result: created_ts = int(...)
CreatedTs(tok) ==
    IF IsNone(tok.create_event) THEN 0 ELSE IntOf(tok.create_event[1].creation_date)

format_token_info(data) ==
    LET base_symbol == Strip(data.symbol) IN
    [symbol |-> base_symbol,
     name |-> Strip(data.name),
     decimals |-> to_int(data.decimals),
     created_timestamp |-> to_timestamp(IntValue(data.created_timestamp)),
     symbol_formats |-> [base |-> base_symbol, lunar |-> UpperTable[base_symbol],
                         ccxt |-> << UpperTable[base_symbol], "/USDT" >>,
                         lower |-> LowerTable[base_symbol]],
     supply |-> to_decimal(data.supply)]

\* params = {"symbol": token_symbol, "create_event": 1}
TokensParams(sym) == Request("tokens", "", 0, 0, "", None, None, sym)

\* The second request of fetch_token_info and its return.
TokensRequest ==
    /\ pc = "tokens"
    /\ \E status_code \in StatusCodes, tokens \in SeqsUpTo(TokenRecords(token_symbol), 1) :
        /\ log' = Append(log, Exchange(TokensParams(token_symbol), status_code, tokens))
        /\ result_addresses' = IF make_request_raises(status_code) THEN << >> ELSE tokens
        /\ IF make_request_raises(status_code) \/ tokens = << >>     \* IndexError
           THEN Abort
           ELSE /\ pc' = "done"
                /\ result' =
                     [kind |-> "dict",
                      rows |-> << format_token_info(
                                    [symbol |-> tokens[1].symbol,
                                     name |-> tokens[1].name,
                                     decimals |-> tokens[1].decimals,
                                     created_timestamp |-> CreatedTs(tokens[1]),
                                     supply |-> tokens[1].current_supply]) >>]
    /\ UNCHANGED <<op, args, token_symbol, offset, acc, result_send, result_receive>>

----------------------------------------------------------------------------
(* fetch_prices *)

PricePoints ==
    { [date |-> "100", price |-> [usd |-> p], volume |-> v] :
        p \in {1, 2}, v \in {None, Some("2")} }

\* float(value) of a JSON number.
to_float(v) == v

\* prices.append({...}); price_point.get('volume', '0')
PriceRow(price_point) ==
    [timestamp |-> IntOf(price_point.date),
     volume |-> IF IsNone(price_point.volume) THEN "0" ELSE price_point.volume[1],
     average_price |-> price_point.price.usd,
     close_price |-> price_point.price.usd]

\* format_prices_df: df['timestamp'] of an empty frame raises KeyError.
format_prices_df(df) ==
    IF df = << >> \/ \E i \in 1..Len(df) :
                      ~to_timestamp_ok(df[i].timestamp) \/ ~to_decimal_ok(df[i].volume)
    THEN Exc(<< >>)
    ELSE Done([i \in 1..Len(df) |->
                 [timestamp |-> tz_localize_none(to_timestamp(df[i].timestamp)),
                  volume |-> to_decimal(df[i].volume),
                  average_price |-> to_float(df[i].average_price),
                  close_price |-> to_float(df[i].close_price)]])

\* Variant: the two date parameters are sent.
PricesParamsWithDates(sym, start_date, end_date) ==
    Request("historyPrices", "", 0, 0, "", start_date, end_date, sym)

\* params = {'symbol': token_symbol}: date_greater and date_less are commented out.
PricesParams(sym, start_date, end_date) ==
    Request("historyPrices", "", 0, 0, "", None, None, sym)

\* The single price history request of fetch_prices and its return.
PricesRequest ==
    /\ pc = "prices"
    /\ \E status_code \in StatusCodes, history_prices \in SeqsUpTo(PricePoints, MaxPoints) :
        /\ log' = Append(log, Exchange(PricesParams(token_symbol, args.start_date,
                                                    args.end_date),
                                       status_code, history_prices))
        /\ result_addresses' =
             IF make_request_raises(status_code) THEN << >> ELSE history_prices
        /\ IF make_request_raises(status_code)
           THEN Abort /\ UNCHANGED acc
           ELSE LET prices == [i \in 1..Len(history_prices) |->
                                 PriceRow(history_prices[i])] IN
                /\ acc' = prices
                /\ Return(format_prices_df(DataFrame(prices)))
    /\ UNCHANGED <<op, args, token_symbol, offset, result_send, result_receive>>

----------------------------------------------------------------------------

Next ==
    \/ fetch_token_info
    \/ fetch_holders
    \/ fetch_transfers
    \/ fetch_early_transfers
    \/ fetch_prices
    \/ get_symbol_by_token_address
    \/ TokensRequest
    \/ HoldersPage
    \/ TransfersSend
    \/ TransfersReceive
    \/ EarlySend
    \/ EarlyReceive
    \/ PricesRequest

Spec == Init /\ [][Next]_vars

----------------------------------------------------------------------------
(* StrictTypeHandler called directly: a caller hands a frame, or a value, of its *)
(* own to a formatter; an exception of the formatter reaches that caller.        *)

TimestampValues ==
    { DateTime(1200, None), DateTime(1200, Some(180)), DateTime(1200, Some(-300)),
      IntValue(100),
      StrValue("1970-01-01 00:20:00"), StrValue("1970-01-01T00:20:00+03:00"),
      StrValue("soon") }

\* The frames of the callers: one row per timestamp of ts, the other columns fixed.
TransferFrame(ts) ==
    [i \in 1..Len(ts) |->
       [timestamp |-> ts[i], transaction_hash |-> "h1", quantity |-> "1",
        from_address |-> " A", to_address |-> "B "]]
PriceFrame(ts) ==
    [i \in 1..Len(ts) |->
       [timestamp |-> ts[i], volume |-> "2", average_price |-> 1, close_price |-> 1]]
HistoricalFrame(ts) ==
    [i \in 1..Len(ts) |-> [timestamp |-> ts[i], balance |-> "1", owner_address |-> " A"]]

\* A call of a formatter on the frame df, formatted being what the formatter computes.
FormatterCall(name, df, formatted) ==
    /\ pc \in {"idle", "done"}
    /\ pc' = "done"
    /\ op' = name
    /\ args' = NoArgs
    /\ acc' = df
    /\ result' = IF formatted.exc THEN Raised ELSE Table(formatted.rows)
    /\ token_symbol' = ""
    /\ offset' = 0
    /\ result_addresses' = << >>
    /\ result_send' = << >>
    /\ result_receive' = << >>
    /\ log' = << >>

format_transfers_df_call ==
    \E ts \in SeqsUpTo(TimestampValues, MaxRows) :
        LET df == TransferFrame(ts) IN
        FormatterCall("format_transfers_df", df, format_transfers_df(df))

format_prices_df_call ==
    \E ts \in SeqsUpTo(TimestampValues, MaxRows) :
        LET df == PriceFrame(ts) IN
        FormatterCall("format_prices_df", df, format_prices_df(df))

format_historical_holders_df_call ==
    \E ts \in SeqsUpTo(TimestampValues, MaxRows) :
        LET df == HistoricalFrame(ts) IN
        FormatterCall("format_historical_holders_df", df, format_historical_holders_df(df))

\* to_timestamp called on one value, kept as a frame of one cell.
to_timestamp_call ==
    \E value \in TimestampValues :
        FormatterCall("to_timestamp", << [timestamp |-> value] >>,
                      IF to_timestamp_ok(value)
                      THEN Done(<< [timestamp |-> to_timestamp(value)] >>)
                      ELSE Exc(<< >>))

NextFormat ==
    \/ format_transfers_df_call
    \/ format_prices_df_call
    \/ format_historical_holders_df_call
    \/ to_timestamp_call

SpecFormat == Init /\ [][NextFormat]_vars

----------------------------------------------------------------------------
(* Properties *)

IsPrefix(s, t) == Len(s) <= Len(t) /\ SubSeq(t, 1, Len(s)) = s
Increasing(f, n) == \A j, k \in 1..n : j < k => f[j] < f[k]
ShorterLen(s, t) == IF Len(s) < Len(t) THEN Len(s) ELSE Len(t)

\* The request log entry k is a page request that returned n raw records.
Returned(k, n) == k \in 1..Len(log) /\ log[k].got = Some(n)
IsShort(k) ==
    /\ k \in 1..Len(log)
    /\ log[k].request.limit = Limit
    /\ \E n \in 1..(Limit - 1) : log[k].got = Some(n)
Kind(k) == log[k].request.event_kind

\* The caller supplied a non-empty address set.
AddressSetGiven == args.addresses # None /\ args.addresses[1] # {}

Unfiltered ==
    \/ op = "fetch_holders" /\ args.min_balance = 0
    \/ op = "fetch_transfers" /\ args.min_value = 0 /\ ~AddressSetGiven
    \/ op = "fetch_early_transfers" /\ token_symbol # "KCAL"

\* C1: every Transfer that fetch_transfers appends while pairing a page is built
\* from one positional pair of that page: timestamp, from_address, quantity and
\* transaction_hash of send[i] and to_address of receive[i], the indices of the
\* appended records increasing, and both pages requested with the same offset.
C1_PositionalPairs ==
    [][ (pc = "receive" /\ log' # log) =>
          /\ Last(log).request.event_kind = "TokenSend"
          /\ Last(log').request.event_kind = "TokenReceive"
          /\ Last(log').request.offset = Last(log).request.offset
          /\ IsPrefix(acc, acc')
          /\ LET n == Len(acc') - Len(acc)
                 m == ShorterLen(result_send, result_receive')
             IN  \E f \in [1..n -> 1..m] :
                    /\ Increasing(f, n)
                    /\ \A k \in 1..n :
                         acc'[Len(acc) + k] =
                           [timestamp |-> IntOf(result_send[f[k]].date),
                            transaction_hash |-> result_send[f[k]].transaction_hash,
                            quantity |-> result_send[f[k]].token_event.value,
                            from_address |-> result_send[f[k]].address,
                            to_address |-> result_receive'[f[k]].address]
      ]_vars

\* C1 witness: the second page of a fetch_transfers, two different send events paired
\* with two different receive events, both pairs emitted.
C1_Witness ==
    /\ op = "fetch_transfers" /\ Len(log) = 5 /\ Len(acc) = 4
    /\ Len(result_send) = 2 /\ Len(result_receive) = 2
    /\ result_send[1] # result_send[2] /\ result_receive[1] # result_receive[2]
    /\ acc[3].transaction_hash = result_send[1].transaction_hash
    /\ acc[3].to_address = result_receive[1].address
    /\ acc[4].transaction_hash = result_send[2].transaction_hash
    /\ acc[4].to_address = result_receive[2].address

\* C2: a full first page does not end the loop, and when the upstream then returns
\* an empty second page the loop ends after exactly two page requests with the
\* accumulator holding the records accepted from the first page: at most Limit, and
\* all Limit of them (returned as Limit rows) when no filter rejects any.
C2_FullThenEmpty ==
    /\ (op = "fetch_holders" /\ Returned(2, Limit)) =>
         /\ Len(log) = 2 => pc = "holders" /\ offset = Limit
         /\ Returned(3, 0) =>
              /\ pc = "done" /\ Len(log) = 3 /\ Len(acc) <= Limit
              /\ Unfiltered => /\ Len(acc) = Limit
                               /\ result.kind = "table" /\ Len(result.rows) = Limit
    /\ (op \in {"fetch_transfers", "fetch_early_transfers"}
        /\ Returned(2, Limit) /\ Returned(3, Limit)) =>
         /\ (Len(log) = 3 /\ pc = "done") => result = NoData
         /\ (Len(log) >= 5 /\ log[4].got # None /\ log[5].got # None
             /\ (Returned(4, 0) \/ Returned(5, 0))) =>
              /\ pc = "done" /\ Len(log) = 5 /\ Len(acc) <= Limit
              /\ Unfiltered =>
                   /\ Len(acc) = Limit
                   /\ result.kind = "table" => Len(result.rows) = Limit
                   /\ op = "fetch_transfers" => result.kind = "table"

\* C2 witness: fetch_holders, a full page then an empty page, nothing filtered.
C2_Witness ==
    /\ op = "fetch_holders" /\ args.min_balance = 0
    /\ Len(log) = 3 /\ Returned(2, Limit) /\ Returned(3, 0)
    /\ pc = "done" /\ Len(result.rows) = Limit

\* C3: after a page request that returned n raw records with 0 < n < Limit the loop
\* stops: no further page request follows (only the TokenReceive request of the same
\* page follows a short TokenSend page), and the records of the short page are
\* processed: with nothing filtered the accumulator holds every record returned (in
\* the transfer fetches: every send record of a page whose receive stream returned
\* at least as many records, when the fetch returns a table).
C3_ShortPageStops ==
    \A k \in 1..Len(log) :
        IsShort(k) =>
            /\ log[k].request.endpoint = "addresses" =>
                 /\ k = Len(log) /\ pc = "done"
                 /\ Unfiltered => /\ Len(acc) = Limit * (k - 2) + log[k].got[1]
                                  /\ result = Table(format_holders_df(acc).rows)
            /\ (log[k].request.endpoint = "events" /\ Kind(k) = "TokenSend") =>
                 /\ Len(log) <= k + 1
                 /\ Len(log) = k => pc \in {"receive", "early_receive"}
                 /\ Len(log) = k + 1 =>
                      /\ pc = "done"
                      /\ (Unfiltered /\ result.kind = "table" /\ log[k + 1].got # None
                          /\ log[k + 1].got[1] >= log[k].got[1]) =>
                           /\ Len(acc) = Limit * ((k - 2) \div 2) + log[k].got[1]
                           /\ Len(result.rows) = Len(acc)
            /\ (log[k].request.endpoint = "events" /\ Kind(k) = "TokenReceive") =>
                 k = Len(log) /\ pc = "done"

\* C3 witness: fetch_holders, a full page and then a short page, nothing filtered.
C3_Witness ==
    /\ op = "fetch_holders" /\ args.min_balance = 0
    /\ Len(log) = 3 /\ Returned(2, Limit) /\ IsShort(3)
    /\ pc = "done" /\ Len(result.rows) = Limit + 1

\* The step is a page request that the upstream answered.
Answered == log' # log /\ Last(log').got # None

\* C4: a failed request, at whatever point of the sequence of requests, is the last
\* request of the operation, which returns the no-data result; no operation ever
\* lets an exception reach the caller.
C4_FailSoft ==
    /\ result.kind # "raise"
    /\ \A k \in 1..Len(log) :
          log[k].got = None => k = Len(log) /\ pc = "done" /\ result = NoData

\* C4 witness: the TokenReceive request of the second page of a fetch_transfers
\* fails after records were accumulated.
C4_Witness ==
    /\ op = "fetch_transfers" /\ Len(log) = 5 /\ log[5].got = None
    /\ acc # << >> /\ result = NoData /\ pc = "done"

\* The page being paired raises no error: the receive page is long enough and every
\* send value is a decimal literal.
PairingClean ==
    /\ Len(result_receive') >= Len(result_send)
    /\ \A i \in 1..Len(result_send) :
          IsDecimalLiteral(result_send[i].token_event.value)

PairedStep ==
    pc = "receive" /\ Answered /\ result_send # << >> /\ result_receive' # << >>

SendValue(i) == DecimalOf(result_send[i].token_event.value)

\* C5: fetch_transfers never emits a pair whose send value is below min_value, and
\* rejects no pair for its value when the send value is min_value or more: with no
\* address set the pairs emitted from a page are as many as its send events of
\* value >= min_value, whatever the values of the receive events.
C5_MinValueFilter ==
    [][ PairedStep =>
          /\ \A i \in 1..Len(acc') : DecimalOf(acc'[i].quantity) >= args.min_value
          /\ (PairingClean /\ ~AddressSetGiven) =>
               Len(acc') - Len(acc) =
                 Cardinality({i \in 1..Len(result_send) : SendValue(i) >= args.min_value})
      ]_vars

\* C5 witness: min_value 2; the send event of value 1 is dropped though its receive
\* event has value 3, the send event of value 2 is emitted though its receive event
\* has value 1.
C5_Witness ==
    /\ op = "fetch_transfers" /\ args.min_value = 2000 /\ ~AddressSetGiven
    /\ Len(log) = 3 /\ Len(result_send) = 2 /\ Len(result_receive) = 2
    /\ result_send[1].token_event.value = "1" /\ result_receive[1].token_event.value = "3"
    /\ result_send[2].token_event.value = "2" /\ result_receive[2].token_event.value = "1"
    /\ Len(acc) = 1 /\ acc[1].quantity = "2"

\* The address rule as the interface states it, for the pair at index i of the page.
AddressPass(i) ==
    IF ~AddressSetGiven THEN TRUE
    ELSE IF args.from_address_only
    THEN result_send[i].address \in args.addresses[1]
    ELSE \/ result_send[i].address \in args.addresses[1]
         \/ result_receive'[i].address \in args.addresses[1]

\* C6: with a non-empty address set every emitted pair has its send address in the
\* set (from_address_only) or its send or receive address in the set (otherwise),
\* and the pairs emitted from a page are exactly as many as pass the value filter
\* and this rule; without a set, or with an empty one, none is rejected for its
\* addresses.
C6_AddressFilter ==
    [][ PairedStep =>
          /\ AddressSetGiven =>
               \A i \in 1..Len(acc') :
                   \/ acc'[i].from_address \in args.addresses[1]
                   \/ ~args.from_address_only /\ acc'[i].to_address \in args.addresses[1]
          /\ PairingClean =>
               Len(acc') - Len(acc) =
                 Cardinality({i \in 1..Len(result_send) :
                                SendValue(i) >= args.min_value /\ AddressPass(i)})
      ]_vars

\* C6 witness: addresses {"B"}, from_address_only false: the pair sent by A and
\* received by B is emitted on the receive-side match.
C6_Witness ==
    /\ op = "fetch_transfers" /\ args.addresses = Some({"B"}) /\ ~args.from_address_only
    /\ Len(log) = 3 /\ Len(result_send) = 1 /\ Len(result_receive) = 1
    /\ result_send[1].address = "A" /\ result_receive[1].address = "B"
    /\ Len(acc) = 1 /\ result.kind = "table"

\* The balance of a holder entry for the resolved symbol: the amount of the first
\* entry of its balances list for that symbol, "0" when there is none.
OwnBalance(holder) ==
    IF \E i \in 1..Len(holder.balances) : holder.balances[i].token.symbol = token_symbol
    THEN holder.balances[CHOOSE i \in 1..Len(holder.balances) :
                            /\ holder.balances[i].token.symbol = token_symbol
                            /\ \A j \in 1..(i - 1) :
                                  holder.balances[j].token.symbol # token_symbol].amount
    ELSE "0"

Included(holder) == DecimalOf(OwnBalance(holder)) >= args.min_balance

IncludedRows(page) ==
    LET kept == SelectSeq(page, Included)
    IN  [i \in 1..Len(kept) |->
           [balance |-> OwnBalance(kept[i]), owner_address |-> kept[i].address]]

\* C7: the holders fetch_holders appends from a page are exactly, in page order, the
\* entries whose balance for the resolved symbol is >= min_balance, each with its
\* address and that balance.
C7_HolderFilter ==
    [][ (pc = "holders" /\ Answered) => acc' = acc \o IncludedRows(result_addresses')
      ]_vars

\* C7 witness: min_balance 1 and symbol SOUL: the entry with no SOUL balance (taken
\* as "0") is left out, the entry whose first SOUL balance is "1" is included.
C7_Witness ==
    /\ op = "fetch_holders" /\ args.min_balance = 1000 /\ token_symbol = "SOUL"
    /\ Len(result_addresses) = 2
    /\ result_addresses[1].balances = << >>
    /\ result_addresses[2].balances = << Balance("SOUL", "1"), Balance("SOUL", "0") >>
    /\ acc = << [balance |-> "1", owner_address |-> result_addresses[2].address] >>

\* C8: while a paginated fetch runs the accumulator only grows at its end, and a
\* returned table has one row per accumulated record, in the same order, duplicates
\* included.
C8_AppendOnly ==
    [][ (pc \in {"holders", "send", "receive", "early_send", "early_receive"}) =>
          /\ IsPrefix(acc, acc')
          /\ (pc' = "done" /\ result'.kind = "table") =>
               /\ Len(result'.rows) = Len(acc')
               /\ \A i \in 1..Len(acc') :
                    IF op = "fetch_holders"
                    THEN /\ result'.rows[i].owner_address = Strip(acc'[i].owner_address)
                         /\ result'.rows[i].balance = DecimalOf(acc'[i].balance)
                    ELSE /\ result'.rows[i].transaction_hash = acc'[i].transaction_hash
                         /\ result'.rows[i].from_address = acc'[i].from_address
                         /\ result'.rows[i].to_address = acc'[i].to_address
                         /\ result'.rows[i].quantity = DecimalOf(acc'[i].quantity)
      ]_vars

\* C8 witness: a fetch_transfers returns four rows, the first page's followed by the
\* second page's, the record of the first page returned again on the second.
C8_Witness ==
    /\ op = "fetch_transfers" /\ pc = "done" /\ result.kind = "table"
    /\ Len(log) = 7 /\ Len(acc) = 4 /\ Len(result.rows) = 4
    /\ acc[1] = acc[3] /\ acc[1] # acc[2]
    /\ result.rows[1] = result.rows[3]

\* C9: the event requests of a transfer fetch come in pairs: every TokenReceive
\* request directly follows a TokenSend request that was answered and that carries
\* the same offset, limit, date bounds and contract; an answered TokenSend request
\* is followed by nothing but that TokenReceive request; a returned table rests on
\* complete pairs only.
C9_DualStreamAligned ==
    /\ \A k \in 1..Len(log) :
         LET r == log[k].request IN
         /\ (op \in {"fetch_transfers", "fetch_early_transfers"} /\ k >= 2) =>
              /\ r.endpoint = "events"
              /\ r.event_kind = IF k % 2 = 0 THEN "TokenSend" ELSE "TokenReceive"
         /\ r.event_kind = "TokenReceive" =>
              /\ log[k - 1].request = [r EXCEPT !.event_kind = "TokenSend"]
              /\ log[k - 1].got # None
         /\ (r.event_kind = "TokenSend" /\ log[k].got # None) =>
              /\ k = Len(log) => pc \in {"receive", "early_receive"}
              /\ k < Len(log) => log[k + 1].request.event_kind = "TokenReceive"
    /\ (op \in {"fetch_transfers", "fetch_early_transfers"} /\ result.kind = "table") =>
         Len(log) % 2 = 1

\* C9 witness: the second page of a fetch_early_transfers with a start date: both
\* requests carry offset Limit and the date bound.
C9_Witness ==
    /\ op = "fetch_early_transfers" /\ Len(log) = 5
    /\ log[4].request.event_kind = "TokenSend" /\ log[4].request.offset = Limit
    /\ log[5].request.event_kind = "TokenReceive" /\ log[5].request.offset = Limit
    /\ log[5].request.date_greater = Some(10)

\* C10: when the send page or the receive page of a page is empty the transfer
\* fetch ends there: nothing is appended, the offset stays, and what was accumulated
\* before is what the fetch returns (no data when that is nothing).
C10_EmptyStreamStops ==
    [][ (pc \in {"receive", "early_receive"} /\ Answered
         /\ (result_send = << >> \/ result_receive' = << >>)) =>
          /\ pc' = "done" /\ acc' = acc /\ offset' = offset
          /\ acc = << >> => result' = NoData
          /\ (acc # << >> /\ \A i \in 1..Len(acc) : IsDecimalLiteral(acc[i].quantity)) =>
               result'.kind = "table" /\ Len(result'.rows) = Len(acc)
      ]_vars

\* C10 witness: on the second page of a fetch_transfers the send page holds events
\* and the receive page none: the two records of the first page are returned.
C10_Witness ==
    /\ op = "fetch_transfers" /\ Len(log) = 5 /\ pc = "done"
    /\ result_send # << >> /\ result_receive = << >> /\ log[5].got = Some(0)
    /\ Len(acc) = 2 /\ result.kind = "table" /\ Len(result.rows) = 2

PaginatedOps == {"fetch_holders", "fetch_transfers", "fetch_early_transfers"}

\* The page of a transfer fetch that was paired last holds a send event whose value
\* is no decimal literal.
UnparsedOnLastPage ==
    /\ op \in {"fetch_transfers", "fetch_early_transfers"}
    /\ pc = "done" /\ Len(log) >= 3 /\ Len(log) % 2 = 1 /\ Last(log).got # None
    /\ result_send # << >> /\ result_receive # << >>
    /\ \E i \in 1..Len(result_send) : ~IsDecimalLiteral(result_send[i].token_event.value)

\* C11: a paginated fetch returns either no data or a table of all the records it
\* accumulated, never a part of them: when its last request failed, or the page it
\* paired last holds a record whose value cannot be parsed, it returns no data,
\* whatever the earlier pages accumulated.
C11_NoPartialSuccess ==
    (op \in PaginatedOps /\ pc = "done") =>
        /\ \/ result = NoData
           \/ result.kind = "table" /\ Len(result.rows) = Len(acc)
        /\ Last(log).got = None => result = NoData
        /\ UnparsedOnLastPage => result = NoData

\* C11 witness: the second page of a fetch_transfers is answered on both streams and
\* holds a send event of value "x"; the two records of the first page are lost.
C11_Witness ==
    /\ op = "fetch_transfers" /\ Len(log) = 5 /\ UnparsedOnLastPage
    /\ Len(acc) >= 2 /\ result = NoData

\* A page of a fetch_early_transfers is paired and the pairing raises no error.
EarlyPairedStep ==
    /\ pc = "early_receive" /\ Answered
    /\ result_send # << >> /\ result_receive' # << >>
    /\ Len(result_receive') >= Len(result_send)
    /\ token_symbol = "KCAL" =>
         \A i \in 1..Len(result_send) : IsDecimalLiteral(result_send[i].token_event.value)

\* The dust rule as stated: the symbol is KCAL and the send value is below 0.005.
StatedDust(i) == token_symbol = "KCAL" /\ SendValue(i) < 5

\* C12: fetch_early_transfers skips a pair exactly when the symbol is KCAL and the
\* send value is below 0.005: the pairs it appends from a page are, for KCAL, those
\* of send value 0.005 or more, and for every other symbol all of them, whatever the
\* addresses and whatever min-value a caller might think of.
C12_DustFilter ==
    [][ EarlyPairedStep =>
          LET kept == {i \in 1..Len(result_send) : ~StatedDust(i)} IN
          /\ Len(acc') - Len(acc) = Cardinality(kept)
          /\ \A i \in kept :
                \E k \in (Len(acc) + 1)..Len(acc') :
                    acc'[k] = TransferRow(result_send[i], result_receive'[i])
      ]_vars

FormatOps ==
    {"format_transfers_df", "format_prices_df", "format_historical_holders_df",
     "to_timestamp"}

\* C13: every timestamp of a table that format_transfers_df, format_prices_df or
\* format_historical_holders_df returns, and every value to_timestamp returns, has
\* no tzinfo, whatever the zone of the input; for an input that carries a zone (a
\* datetime, or a string with a UTC offset) the wall-clock reading is the input's.
C13_TimezoneNaive ==
    (op \in FormatOps /\ result.kind = "table") =>
        /\ Len(result.rows) = Len(acc)
        /\ \A i \in 1..Len(acc) :
              LET given == acc[i].timestamp
                  out == result.rows[i].timestamp
              IN  /\ out.type = "datetime" /\ out.tzinfo = None
                  /\ given.type = "datetime" => out.wall = given.wall
                  /\ given.type = "str" => out.wall = pd_to_datetime(given.s).wall

\* C13 witness: format_historical_holders_df, which has no tz_localize of its own,
\* on a frame of a datetime at UTC+3 and a string at UTC+3: both rows read 1200 with
\* no zone.
C13_Witness ==
    /\ op = "format_historical_holders_df" /\ result.kind = "table" /\ Len(acc) = 2
    /\ acc[1].timestamp = DateTime(1200, Some(180))
    /\ acc[2].timestamp = StrValue("1970-01-01T00:20:00+03:00")
    /\ result.rows[1].timestamp = DateTime(1200, None)
    /\ result.rows[2].timestamp = DateTime(1200, None)

\* C14: fetch_token_info issues at most two requests, never a page request: first
\* the resolution of the token address and then, only when that resolved, the
\* token metadata of the resolved symbol; a token info comes from exactly these
\* two, and its created timestamp is that of epoch 0 when the token has no
\* creation event and that of the creation date otherwise.
C14_TokenInfoTwoRequests ==
    op = "fetch_token_info" =>
        /\ Len(log) <= 2
        /\ \A k \in 1..Len(log) : log[k].request.offset = 0 /\ log[k].request.limit = 0
        /\ Len(log) >= 1 =>
             log[1].request.endpoint = "addresses" /\ log[1].request.key = args.token_address
        /\ Len(log) = 2 =>
             /\ log[1].got = Some(1)
             /\ log[2].request.endpoint = "tokens" /\ log[2].request.key = token_symbol
        /\ (pc = "done" /\ result # NoData) =>
             /\ Len(log) = 2 /\ log[2].got = Some(1) /\ result.kind = "dict"
             /\ LET tok == result_addresses[1] IN
                result.rows[1].created_timestamp =
                  IF IsNone(tok.create_event) THEN fromtimestamp(0)
                  ELSE fromtimestamp(IntOf(tok.create_event[1].creation_date))

\* C14 witness: a token with a creation event of date 100: two requests, and the
\* created timestamp is that of 100.
C14_Witness ==
    /\ op = "fetch_token_info" /\ pc = "done" /\ Len(log) = 2 /\ result.kind = "dict"
    /\ result_addresses[1].create_event = Some([creation_date |-> "100"])
    /\ result.rows[1].created_timestamp = fromtimestamp(100)

\* C15: fetch_prices issues, after the resolution, one price history request that
\* carries the symbol and neither a date bound nor an offset or limit, and no
\* other; what it returns is fixed by the response alone, whatever start_date and
\* end_date: one row per point, average_price and close_price both the usd price
\* of the point, volume 0 for a point without volume (no data for no points).
C15_PricesSingleRequest ==
    op = "fetch_prices" =>
        /\ Len(log) <= 2
        /\ Len(log) = 2 =>
             LET r == log[2].request IN
             /\ log[1].got = Some(1)
             /\ r.endpoint = "historyPrices" /\ r.key = token_symbol
             /\ r.date_greater = None /\ r.date_less = None
             /\ r.offset = 0 /\ r.limit = 0
        /\ (pc = "done" /\ Len(log) = 2 /\ log[2].got # None) =>
             IF result_addresses = << >> THEN result = NoData
             ELSE /\ result.kind = "table" /\ Len(result.rows) = Len(result_addresses)
                  /\ \A i \in 1..Len(result_addresses) :
                        LET point == result_addresses[i]
                            row == result.rows[i]
                        IN  /\ row.timestamp = fromtimestamp(IntOf(point.date))
                            /\ row.average_price = point.price.usd
                            /\ row.close_price = point.price.usd
                            /\ row.volume = IF IsNone(point.volume) THEN 0
                                            ELSE DecimalOf(point.volume[1])

\* C15 witness: a fetch_prices with both dates given: the request carries no date,
\* and of the two points returned the one without volume gets volume 0.
C15_Witness ==
    /\ op = "fetch_prices" /\ pc = "done" /\ result.kind = "table"
    /\ args.start_date = Some(10) /\ args.end_date = Some(10)
    /\ log[2].request.date_greater = None /\ log[2].request.date_less = None
    /\ Len(result_addresses) = 2
    /\ IsNone(result_addresses[1].volume) /\ result.rows[1].volume = 0
    /\ result_addresses[2].volume = Some("2") /\ result.rows[2].volume = 2000

\* C16: a call starts from the same state whatever ran before it and however that
\* ended: offset 0, an empty accumulator, no symbol, no page and no request of an
\* earlier call; its first page request carries offset 0. What a call does is
\* therefore fixed by its arguments and the responses it gets.
C16_NoCarryOver ==
    [][ /\ (pc \in {"idle", "done"} /\ pc' = "resolve") =>
             /\ offset' = 0 /\ acc' = << >> /\ token_symbol' = "" /\ log' = << >>
             /\ result_addresses' = << >> /\ result_send' = << >> /\ result_receive' = << >>
             /\ result' = Pending
        /\ (pc = "resolve" /\ pc' # "done") => offset' = 0 /\ acc' = << >> /\ Len(log') = 1
        /\ (pc \in {"holders", "send", "early_send"} /\ Len(log) = 1) =>
             Last(log').request.offset = 0 /\ Last(log').request.limit = Limit
      ]_vars

\* C16 witness: a fetch_transfers that ended in a failed request on its second
\* page, leaving offset Limit and two accumulated records behind: the state the
\* next call starts from.
C16_Witness ==
    /\ op = "fetch_transfers" /\ pc = "done" /\ result = NoData
    /\ offset = Limit /\ Len(acc) = 2 /\ Len(log) = 4 /\ log[4].got = None
    /\ result_send # << >> /\ result_receive # << >>

\* A page of a transfer fetch is answered on both streams, both pages hold events,
\* they differ in length, and nothing else keeps a pair from being emitted or the
\* fetch from returning its table: every send value of the page and every quantity
\* accumulated so far is a decimal literal and no filter applies.
MismatchedStep ==
    /\ pc \in {"receive", "early_receive"} /\ Answered /\ Unfiltered
    /\ result_send # << >> /\ result_receive' # << >>
    /\ Len(result_send) # Len(result_receive')
    /\ \A i \in 1..Len(result_send) : IsDecimalLiteral(result_send[i].token_event.value)
    /\ \A i \in 1..Len(acc) : IsDecimalLiteral(acc[i].quantity)

\* C17: when the send page and the receive page of a page are both non-empty but
\* of different lengths, the pairing takes the first min(len(send), len(receive))
\* pairs and the fetch does not fail for the mismatch, whichever page is shorter.
C17_TruncatesToShorter ==
    [][ MismatchedStep =>
          /\ Len(acc') - Len(acc) = ShorterLen(result_send, result_receive')
          /\ ~(pc' = "done" /\ result' = NoData)
      ]_vars

\* The page a request of the log belongs to, counted from 1: holders issue one
\* request per page and the transfer fetches two, after the resolution request.
PageOf(name, k) == IF name = "fetch_holders" THEN k - 1 ELSE (k - 2) \div 2 + 1

\* The page just processed was full and not empty, and the loop goes on.
FullPageProcessed ==
    /\ Answered /\ pc' \notin {"idle", "done"}
    /\ \/ pc = "holders" /\ Len(result_addresses') = Limit
       \/ /\ pc \in {"receive", "early_receive"}
          /\ Len(result_send) = Limit /\ result_receive' # << >>

\* C18: the k-th page of a paginated fetch is requested with offset (k-1) * limit
\* and with the same limit; the offset starts at 0, changes only after a full
\* non-empty page has been processed, and then grows by exactly limit.
C18_OffsetProgression ==
    [][ /\ op' \in PaginatedOps =>
             \A k \in 2..Len(log') :
                 /\ log'[k].request.offset = (PageOf(op', k) - 1) * Limit
                 /\ log'[k].request.limit = Limit
        /\ pc' = "resolve" => offset' = 0
        /\ (pc' # "resolve" /\ offset' # offset) =>
             offset' = offset + Limit /\ FullPageProcessed
        /\ (pc' # "resolve" /\ FullPageProcessed) => offset' = offset + Limit
      ]_vars

\* A transfer fetch that requested its third page.
C18_Witness ==
    /\ op = "fetch_transfers" /\ pc = "done" /\ Len(log) = 7
    /\ log[2].request.offset = 0 /\ log[3].request.offset = 0
    /\ log[4].request.offset = Limit /\ log[5].request.offset = Limit
    /\ log[6].request.offset = 2 * Limit /\ log[7].request.offset = 2 * Limit
    /\ offset = 2 * Limit

ResolvingOps == PaginatedOps \cup {"fetch_prices"}

\* C19: in fetch_holders, fetch_transfers, fetch_early_transfers and fetch_prices
\* the address-to-symbol resolution request is the first request of the operation;
\* when the address list of the answer is empty, the operation returns the no-data
\* result and that request stays its only one.
C19_ResolutionFirst ==
    op \in ResolvingOps =>
        /\ pc \notin {"idle", "resolve"} => log # << >>
        /\ log # << >> =>
             /\ log[1].request = Request("addresses", "", 0, 0, "", None, None,
                                         args.token_address)
             /\ \A k \in 2..Len(log) : log[k].request # log[1].request
             /\ log[1].got = Some(0) =>
                  Len(log) = 1 /\ pc = "done" /\ result = NoData

\* fetch_prices on an address the upstream does not know.
C19_Witness ==
    /\ op = "fetch_prices" /\ pc = "done" /\ result = NoData
    /\ Len(log) = 1 /\ log[1].got = Some(0)
    /\ log[1].request.key = args.token_address

----------------------------------------------------------------------------
(* Termination of the paginated fetches *)

\* The statements of a running operation: Python executes them one after the
\* other, and every request a running operation is waiting for is answered.
Step ==
    \/ get_symbol_by_token_address
    \/ TokensRequest
    \/ HoldersPage
    \/ TransfersSend
    \/ TransfersReceive
    \/ EarlySend
    \/ EarlyReceive
    \/ PricesRequest

\* A call of an operation.
Call ==
    \/ fetch_token_info
    \/ fetch_holders
    \/ fetch_transfers
    \/ fetch_early_transfers
    \/ fetch_prices

\* One call followed from the initial state to its return. Entry resets every
\* local (Enter), so a call made after another one runs through the same states as
\* a first call: the states reachable here are those reachable under Spec.
NextLive == (pc = "idle" /\ Call) \/ Step

SpecLive == Init /\ [][NextLive]_vars /\ WF_vars(Step)

Running == pc \notin {"idle", "done"}

\* The number of page iterations the running operation has started.
Iterations == IF Len(log) < 2 THEN 0 ELSE PageOf(op, Len(log))

\* The records the upstream returned on the stream that decides whether a page is
\* full (the holders, or the send events), over the requests 2..k of the log.
RECURSIVE RecordsReturned(_)
RecordsReturned(k) ==
    IF k < 2 THEN 0
    ELSE RecordsReturned(k - 1)
         + (IF (op = "fetch_holders" \/ k % 2 = 0) /\ log[k].got # None
            THEN log[k].got[1] ELSE 0)

\* C20: a paginated fetch returns: the upstream holds finitely many records, so
\* some page is empty, short or failed, and the loop ends there. The number of page
\* iterations is at most floor(N / limit) + 1, for N the records the upstream
\* holds (at least those it returned, at most MaxRecords), and the loop goes on to
\* another iteration only after a full page.
C20_Terminates ==
    /\ [](op \in PaginatedOps =>
            /\ Iterations <= RecordsReturned(Len(log)) \div Limit + 1
            /\ Iterations <= MaxRecords \div Limit + 1)
    /\ [][(op \in PaginatedOps /\ Iterations' > Iterations /\ Iterations > 0) =>
            \E k \in 2..Len(log) : PageOf(op, k) = Iterations /\ log[k].got = Some(Limit)]_vars
    /\ (op \in PaginatedOps /\ Running) ~> (pc = "done")

\* A fetch_holders that returned after the most iterations the upstream allows,
\* on the empty page that follows the full ones.
C20_Witness ==
    /\ op = "fetch_holders" /\ pc = "done" /\ result.kind = "table"
    /\ Iterations = MaxRecords \div Limit + 1
    /\ RecordsReturned(Len(log)) = MaxRecords
    /\ Last(log).got = Some(0)

\* The operations that return a table.
TableOps == {"fetch_holders", "fetch_transfers", "fetch_early_transfers", "fetch_prices"}

\* The operation has returned, its symbol was resolved and no request failed.
EndedUnfailed ==
    /\ pc = "done" /\ Len(log) >= 2
    /\ \A k \in 1..Len(log) : log[k].got # None

\* C21: a fetch that builds a table and ends its loop with an empty accumulator,
\* no request having failed, returns the no-data result and not an empty table; a
\* returned table always has at least one row.
C21_EmptyYieldsNoData ==
    (op \in TableOps /\ pc = "done") =>
        /\ result.kind \in {"none", "table"}
        /\ result.kind = "table" => result.rows # << >> /\ Len(result.rows) = Len(acc)
        /\ (EndedUnfailed /\ acc = << >>) => result = NoData

\* A fetch_transfers whose only page held events that the filters all dropped.
C21_Witness ==
    /\ op = "fetch_transfers" /\ EndedUnfailed /\ Len(log) = 3
    /\ result_send # << >> /\ Len(result_send) <= Len(result_receive)
    /\ \A i \in 1..Len(result_send) : IsDecimalLiteral(result_send[i].token_event.value)
    /\ acc = << >> /\ result = NoData

====
